---- MODULE Spec2Model ----
(***************************************************************************)
(* Model of the payload.bin extractor (src/extract_payload.py).            *)
(*                                                                         *)
(* Spec      extract_partition: the operation loop of one partition, one   *)
(*           action per step of the loop body (fetch, read, verify,        *)
(*           decompress, one extent write).                                *)
(* SpecCmd   cmd_extract: the name check, mkdir and the extraction loop,   *)
(*           extract_partition being one call.                             *)
(* SpecWire  iter_fields as the generator it is: one action per next().    *)
(* SpecLoad  load_payload: header reads, manifest read, manifest fields.   *)
(* SpecDL    download_file_multiconnection (src/download_firmware.py): the *)
(*           main thread and its worker threads, interleaved.              *)
(*                                                                         *)
(* Each specification runs one function; the variables of the others keep  *)
(* their idle values.                                                      *)
(*                                                                         *)
(* In Spec the manifest is input.  The two loops of extract_partition      *)
(* consume the partition's operation list and each operation's extent list *)
(* front to back, and every field of an operation is read once; the model  *)
(* draws each list element and each field where the code reads it.         *)
(* Bytes are small naturals, files and buffers are sequences of bytes and  *)
(* file offsets are 0-based as in the source.                              *)
(***************************************************************************)
EXTENDS Integers, Sequences, FiniteSets, TLC

VARIABLES
    \* ---- extract_partition (Spec) ----
    pc,          \* position in extract_partition
    img,         \* the file at output_path: [exists, bytes]
    i,           \* enumerate index of the current operation (-1 before the first)
    op_type,     \* op.op_type of the current operation
    k,           \* extents of the current operation consumed so far
    compressed,  \* bytes read from the payload for the current operation
    data,        \* decompressed buffer of the current operation
    pos,         \* read cursor into data
    result,      \* "running", "True", "False" or "raised"
    error,       \* what was printed or raised on failure
    nreads,      \* history: f_in.read calls made for the current operation
    nwrites,     \* history: number of extent-loop iterations so far
    dec,         \* history: decompress was called for the current operation
    mism,        \* history: the current operation's declared digest is not
                 \*          empty and is not the digest of the bytes read
    wbytes,      \* history: bytes written by the current operation
    extBytes,    \* history: sum of num*bs over the consumed extents
    opw,         \* history: offsets the current operation has written
    stale,       \* history: offsets whose highest-index covering operation
                 \*          has not written them
    \* ---- iter_fields (SpecWire) ----
    wdata,       \* the buffer given to iter_fields
    wpos,        \* pos of the suspended generator
    wstate,      \* "ready", "stopped" (StopIteration) or "raised"
    wfields,     \* the (field_num, value) pairs yielded so far
    werr,        \* the exception raised, <<>> if none
    \* ---- load_payload (SpecLoad) ----
    file,        \* the bytes of the file at path
    lpc,         \* position in load_payload
    manifest_size,
    signature_size,
    manifest_data,
    lpos,        \* pos of iter_fields(manifest_data)
    loaded,      \* the Payload under construction
    lerr,        \* the exception raised, <<>> if none
    \* ---- cmd_extract (SpecCmd) ----
    partitions,  \* payload.partitions: sequence of [name, operations]
    names,       \* the requested names
    output_dir,  \* [exists, files]: the directory and the images in it
    cpc,         \* position in cmd_extract
    cidx,        \* index into names of the running loop
    cresult,     \* "running", "True", "False" or "raised"
    cerror,      \* what was printed or raised on failure
    dir0,        \* history: output_dir when cmd_extract was called
    mkdirs,      \* history: calls of output_dir.mkdir
    opened,      \* history: names whose image file was opened, in order
    \* ---- download_file_multiconnection (SpecDL) ----
    total_size,
    num_connections,
    mpc,         \* position of the main thread
    ranges,      \* chunk id -> [start, end]
    progress_tracker,
    results,
    tpc,         \* chunk id -> position of its worker thread
    downloaded,  \* chunk id -> downloaded of its download_chunk call
    started,     \* threads started so far
    total_downloaded,
    dresult,     \* "running", "True" or "False"
    written      \* history: <<offset, chunk id>> for every byte a worker wrote

exVars == <<pc, img, i, op_type, k, compressed, data, pos, result, error, nreads, nwrites, mism,
            dec, wbytes, extBytes, opw, stale>>

wireVars == <<wdata, wpos, wstate, wfields, werr>>

loadVars == <<file, lpc, manifest_size, signature_size, manifest_data, lpos, loaded, lerr>>

cmdVars == <<partitions, names, output_dir, cpc, cidx, cresult, cerror, dir0, mkdirs, opened>>

dlVars == <<total_size, num_connections, mpc, ranges, progress_tracker, results, tpc,
            downloaded, started, total_downloaded, dresult, written>>

vars == <<exVars, wireVars, loadVars, cmdVars, dlVars>>

-----------------------------------------------------------------------------
(* Bounds of the model.                                                    *)
MaxOps == 2
MaxWrites == 2
MaxBlocks == 2
MaxDataLen == 4

-----------------------------------------------------------------------------
(* Program constants.                                                      *)
OP_REPLACE == 0
OP_REPLACE_BZ == 1
OP_SOURCE_COPY == 4
OP_SOURCE_BSDIFF == 5
OP_ZERO == 6
OP_REPLACE_XZ == 8
OP_PUFFDIFF == 9

OP_NAMES == (0 :> "REPLACE") @@ (1 :> "REPLACE_BZ") @@ (4 :> "SOURCE_COPY") @@
            (5 :> "SOURCE_BSDIFF") @@ (6 :> "ZERO") @@ (8 :> "REPLACE_XZ") @@
            (9 :> "PUFFDIFF") @@ (14 :> "ZSTD") @@ (15 :> "LZ4")

\* OP_NAMES.get(op_type, op_type)
OpNameOr(t) == IF t \in DOMAIN OP_NAMES THEN OP_NAMES[t] ELSE t

-----------------------------------------------------------------------------
(* Byte-sequence helpers: Python slicing, file reads and file writes.      *)
Min(a, b) == IF a < b THEN a ELSE b
Max(a, b) == IF a > b THEN a ELSE b

Zeros(n) == [j \in 1..n |-> 0]

\* s[p:p+n] of Python: clipped at the end of s, empty when p is past it.
PySlice(s, p, n) == SubSeq(s, p + 1, Min(p + n, Len(s)))

\* f.seek(off); f.read(n): a read at or past end of file returns fewer bytes.
FileRead(f, off, n) == SubSeq(f, off + 1, Min(off + n, Len(f)))

\* f.seek(off); f.write(d) on a file holding b: a write past the end fills
\* the gap with zero bytes; writing nothing changes nothing.
WriteAt(b, off, d) ==
    IF d = <<>> THEN b
    ELSE LET padded == IF Len(b) < off THEN b \o Zeros(off - Len(b)) ELSE b
         IN  [j \in 1..Max(Len(padded), off + Len(d)) |->
                IF j > off /\ j <= off + Len(d) THEN d[j - off] ELSE padded[j]]

-----------------------------------------------------------------------------
(* The payload under extraction.  The payload file is three bytes of       *)
(* header, manifest and signature followed by the data region; block_size  *)
(* is the value manifest field 3 sets.                                     *)
PayloadFile == <<0, 0, 0>> \o [j \in 1..MaxDataLen |-> j]

payload == [data_offset |-> 3, block_size |-> 2]

bs == payload.block_size

\* hashlib.sha256(...).digest(), idealised as collision-free: a non-empty
\* digest that determines its input.
Sha256(s) == <<Len(s) + 1>> \o [j \in 1..Len(s) |-> s[j] + 1]

\* lzma.decompress: a stream is the marker byte 1 and a body; anything
\* else, the empty stream included, is an LZMAError.
LzmaDecompress(c) ==
    IF Len(c) >= 1 /\ c[1] = 1
    THEN [ok |-> TRUE, out |-> Tail(c)]
    ELSE [ok |-> FALSE, out |-> <<>>]

\* bz2.decompress: the empty stream decompresses to nothing; a stream is
\* the marker byte 2 and a body.
Bz2Decompress(c) ==
    IF c = <<>> THEN [ok |-> TRUE, out |-> <<>>]
    ELSE IF c[1] = 2 THEN [ok |-> TRUE, out |-> Tail(c)]
    ELSE [ok |-> FALSE, out |-> <<>>]

decompress(c, t) ==
    IF t = OP_REPLACE THEN [ok |-> TRUE, out |-> c, err |-> <<>>]
    ELSE IF t = OP_REPLACE_XZ
    THEN LET r == LzmaDecompress(c)
         IN  [ok |-> r.ok, out |-> r.out, err |-> <<"LZMAError">>]
    ELSE IF t = OP_REPLACE_BZ
    THEN LET r == Bz2Decompress(c)
         IN  [ok |-> r.ok, out |-> r.out, err |-> <<"OSError">>]
    ELSE [ok |-> FALSE, out |-> <<>>, err |-> <<"Unsupported", OpNameOr(t)>>]

-----------------------------------------------------------------------------
(* The operations and extents a manifest can declare (within the bounds).  *)
ReplaceKinds == {OP_REPLACE, OP_REPLACE_XZ, OP_REPLACE_BZ}
IncrementalKinds == {OP_SOURCE_COPY, OP_SOURCE_BSDIFF, OP_PUFFDIFF}
OtherKinds == {14, 15, 2}
Kinds == ReplaceKinds \cup IncrementalKinds \cup OtherKinds \cup {OP_ZERO}

\* Destination extents inside an image of MaxBlocks blocks.
Extents ==
    {e \in [start : 0..MaxBlocks, num : 1..MaxBlocks] : e.start + e.num <= MaxBlocks}

\* op.data_offset and op.data_length
SourceOffsets == {0, 1}
SourceLengths == 0..MaxDataLen

Window(off, len) == FileRead(PayloadFile, payload.data_offset + off, len)

\* The source windows drawn for an operation of kind t: every window for the
\* Replace family, the short ones for the kinds decompress refuses.
SourceWindows(t) ==
    IF t \in ReplaceKinds THEN SourceOffsets \X SourceLengths
    ELSE SourceOffsets \X {0, 1}

\* The digests a manifest may carry for the source bytes c: none, the right
\* one, the digest of c with one byte changed, and the right digest with
\* one byte changed.
ChangeByte(s) == IF s = <<>> THEN <<1>> ELSE [s EXCEPT ![Len(s)] = @ + 1]

Digests(c) == {<<>>, Sha256(c), Sha256(ChangeByte(c)), ChangeByte(Sha256(c))}

\* Destination offsets an extent can address.
Offsets == 0..(MaxBlocks * bs - 1)

WrittenRange(e, n) == {o \in Offsets : e.start * bs <= o /\ o < e.start * bs + n}

ExtentRange(e) == {o \in Offsets : e.start * bs <= o /\ o < (e.start + e.num) * bs}

-----------------------------------------------------------------------------
(* extract_partition                                                       *)

\* Mutant of ZeroData: the block count taken for a byte count.
ZeroDataBlocks(e) == Zeros(e.num)

\* bytes(num * bs)
ZeroData(e) == Zeros(e.num * bs)

\* f_out.seek(start * bs); f_out.write(bytes(num * bs))
ZeroWrite(b, e) == WriteAt(b, e.start * bs, ZeroData(e))

\* f_out.seek(start * bs); f_out.write(data[pos:pos + size])
ReplaceWrite(b, d, p, e) == WriteAt(b, e.start * bs, PySlice(d, p, e.num * bs))

\* History of one write call of the current operation: extent e declared,
\* n bytes actually written at its start.
Logged(e, n) ==
    /\ nwrites' = nwrites + 1
    /\ wbytes' = wbytes + n
    /\ extBytes' = extBytes + e.num * bs
    /\ opw' = opw \cup WrittenRange(e, n)
    /\ stale' = (stale \ WrittenRange(e, n))
                    \cup (ExtentRange(e) \ (opw \cup WrittenRange(e, n)))

\* The locals of an iteration of the operation loop before it starts.
Fresh ==
    /\ mism' = FALSE
    /\ k' = 0
    /\ compressed' = <<>>
    /\ data' = <<>>
    /\ pos' = 0
    /\ nreads' = 0
    /\ dec' = FALSE
    /\ wbytes' = 0
    /\ extBytes' = 0
    /\ opw' = {}

ExInit ==
    /\ pc = "start"
    /\ img \in {[exists |-> FALSE, bytes |-> <<>>],
                [exists |-> TRUE, bytes |-> <<7, 7, 7>>]}
    /\ i = -1
    /\ op_type = OP_REPLACE
    /\ mism = FALSE
    /\ k = 0
    /\ compressed = <<>>
    /\ data = <<>>
    /\ pos = 0
    /\ result = "running"
    /\ error = <<>>
    /\ nreads = 0
    /\ nwrites = 0
    /\ dec = FALSE
    /\ wbytes = 0
    /\ extBytes = 0
    /\ opw = {}
    /\ stale = {}

\* with open(payload.path, 'rb') as f_in, open(output_path, 'wb') as f_out
Open ==
    /\ pc = "start"
    /\ img' = [exists |-> TRUE, bytes |-> <<>>]
    /\ pc' = "loop"
    /\ UNCHANGED <<i, op_type, k, compressed, data, pos, result, error,
                   nreads, nwrites, dec, mism, wbytes, extBytes, opw, stale>>
    /\ UNCHANGED <<wireVars, loadVars, cmdVars, dlVars>>

\* for i, op in enumerate(partition.operations): the next operation, of kind t
NextOp(t) ==
    /\ pc = "loop"
    /\ i + 1 < MaxOps
    /\ i' = i + 1
    /\ op_type' = t
    /\ Fresh
    /\ pc' = "dispatch"
    /\ UNCHANGED <<img, result, error, nwrites, stale>>
    /\ UNCHANGED <<wireVars, loadVars, cmdVars, dlVars>>

\* the operation list is exhausted: print(); return True
EndOfOps ==
    /\ pc = "loop"
    /\ result' = "True"
    /\ pc' = "done"
    /\ UNCHANGED <<img, i, op_type, k, compressed, data, pos, error,
                   nreads, nwrites, dec, mism, wbytes, extBytes, opw, stale>>
    /\ UNCHANGED <<wireVars, loadVars, cmdVars, dlVars>>

\* if op.op_type == OP_ZERO: one iteration of the loop over op.dst_extents
ZeroExtent(e) ==
    /\ pc = "dispatch"
    /\ op_type = OP_ZERO
    /\ nwrites < MaxWrites
    /\ img' = [img EXCEPT !.bytes = ZeroWrite(@, e)]
    /\ k' = k + 1
    /\ Logged(e, Len(ZeroData(e)))
    /\ UNCHANGED <<pc, i, op_type, compressed, data, pos, result, error,
                   nreads, dec, mism>>
    /\ UNCHANGED <<wireVars, loadVars, cmdVars, dlVars>>

\* op.dst_extents of a Zero operation is exhausted: continue
ZeroDone ==
    /\ pc = "dispatch"
    /\ op_type = OP_ZERO
    /\ pc' = "opdone"
    /\ UNCHANGED <<img, i, op_type, k, compressed, data, pos, result, error,
                   nreads, nwrites, dec, mism, wbytes, extBytes, opw, stale>>
    /\ UNCHANGED <<wireVars, loadVars, cmdVars, dlVars>>

\* Mutant of IsIncremental: PUFFDIFF left out of the tuple.
IsIncrementalNoPuffdiff(t) == t \in {OP_SOURCE_COPY, OP_SOURCE_BSDIFF}

\* if op.op_type in (OP_SOURCE_COPY, OP_SOURCE_BSDIFF, OP_PUFFDIFF): raise
IsIncremental(t) == t \in {OP_SOURCE_COPY, OP_SOURCE_BSDIFF, OP_PUFFDIFF}

RaiseIncremental ==
    /\ pc = "dispatch"
    /\ op_type # OP_ZERO
    /\ IsIncremental(op_type)
    /\ result' = "raised"
    /\ error' = <<"ValueError", "Incremental op not supported", OP_NAMES[op_type]>>
    /\ pc' = "done"
    /\ UNCHANGED <<img, i, op_type, k, compressed, data, pos,
                   nreads, nwrites, dec, mism, wbytes, extBytes, opw, stale>>
    /\ UNCHANGED <<wireVars, loadVars, cmdVars, dlVars>>

\* Mutant of HashMismatch: only the digests' lengths are compared.
HashMismatchLengthOnly(c, d) == d # <<>> /\ Len(Sha256(c)) # Len(d)

\* if op.data_sha256 and sha256(compressed).digest() != op.data_sha256
HashMismatch(c, d) == d # <<>> /\ Sha256(c) # d

\* The rest of the loop body up to the extent loop, for an operation whose
\* manifest entry has data_offset off, data_length len and data_sha256 d:
\*   f_in.seek(payload.data_offset + op.data_offset); f_in.read(op.data_length)
\*   on a digest mismatch: print, return False
\*   try: data = decompress(compressed, op.op_type) except Exception: return False
\* Returns what the step leaves in compressed, data, dec, result and error.
LoadData(t, off, len, d) ==
    LET c == FileRead(PayloadFile, payload.data_offset + off, len)
        r == decompress(c, t)
    IN  IF HashMismatch(c, d)
        THEN [compressed |-> c, dec |-> FALSE, data |-> <<>>, result |-> "False",
              error |-> <<"Hash mismatch at operation", i>>]
        ELSE IF r.ok
        THEN [compressed |-> c, dec |-> TRUE, data |-> r.out, result |-> "running",
              error |-> <<>>]
        ELSE [compressed |-> c, dec |-> TRUE, data |-> <<>>, result |-> "False",
              error |-> r.err]

ReadVerifyDecompress(off, len, d) ==
    /\ pc = "dispatch"
    /\ op_type # OP_ZERO
    /\ ~IsIncremental(op_type)
    /\ LET l == LoadData(op_type, off, len, d)
       IN  /\ compressed' = l.compressed
           /\ dec' = l.dec
           /\ data' = l.data
           /\ result' = l.result
           /\ error' = l.error
           /\ pc' = IF l.result = "running" THEN "write" ELSE "done"
           /\ mism' = (d # <<>> /\ Sha256(l.compressed) # d)
    /\ nreads' = nreads + 1
    /\ pos' = 0
    /\ UNCHANGED <<img, i, op_type, k, nwrites, wbytes, extBytes, opw, stale>>
    /\ UNCHANGED <<wireVars, loadVars, cmdVars, dlVars>>

\* one iteration of: for start, num in op.dst_extents
WriteExtent(e) ==
    /\ pc = "write"
    /\ nwrites < MaxWrites
    /\ img' = [img EXCEPT !.bytes = ReplaceWrite(@, data, pos, e)]
    /\ pos' = pos + e.num * bs
    /\ k' = k + 1
    /\ Logged(e, Len(PySlice(data, pos, e.num * bs)))
    /\ UNCHANGED <<pc, i, op_type, compressed, data, result, error,
                   nreads, dec, mism>>
    /\ UNCHANGED <<wireVars, loadVars, cmdVars, dlVars>>

\* op.dst_extents of a Replace-family operation is exhausted
ExtentsDone ==
    /\ pc = "write"
    /\ pc' = "opdone"
    /\ UNCHANGED <<img, i, op_type, k, compressed, data, pos, result, error,
                   nreads, nwrites, dec, mism, wbytes, extBytes, opw, stale>>
    /\ UNCHANGED <<wireVars, loadVars, cmdVars, dlVars>>

\* back to the head of the operation loop; the locals of the finished
\* iteration are dead
Continue ==
    /\ pc = "opdone"
    /\ pc' = "loop"
    /\ op_type' = OP_REPLACE
    /\ Fresh
    /\ UNCHANGED <<img, i, result, error, nwrites, stale>>
    /\ UNCHANGED <<wireVars, loadVars, cmdVars, dlVars>>

ExNext ==
    \/ Open
    \/ \E t \in Kinds : NextOp(t)
    \/ EndOfOps
    \/ \E e \in Extents : ZeroExtent(e)
    \/ ZeroDone
    \/ RaiseIncremental
    \/ \E w \in SourceWindows(op_type) :
          \E d \in Digests(Window(w[1], w[2])) : ReadVerifyDecompress(w[1], w[2], d)
    \/ \E e \in Extents : WriteExtent(e)
    \/ ExtentsDone
    \/ Continue

-----------------------------------------------------------------------------
(* The wire decoder: read_varint and iter_fields.                          *)

TruncatedVarint == <<"ValueError", "Truncated varint">>

\* struct.unpack on a buffer that is not of the format's size
StructError == <<"struct.error">>

\* The while loop of read_varint.  shift is a multiple of 7 and 7 bits come
\* in at a time, so OR-ing them into the accumulator is adding them.
RECURSIVE VarintLoop(_, _, _, _)
VarintLoop(d, p, acc, shift) ==
    IF p < Len(d)
    THEN LET byte == d[p + 1]
             r == acc + (byte % 128) * 2^shift
         IN  IF byte < 128 THEN [ok |-> TRUE, value |-> r, pos |-> p + 1]
             ELSE VarintLoop(d, p + 1, r, shift + 7)
    ELSE [ok |-> FALSE, value |-> 0, pos |-> p]

read_varint(d, p) == VarintLoop(d, p, 0, 0)

\* int.from_bytes(s, 'little'), the value struct.unpack('<Q' or '<I') gives
RECURSIVE LittleEndian(_)
LittleEndian(s) == IF s = <<>> THEN 0 ELSE Head(s) + 256 * LittleEndian(Tail(s))

\* the value struct.unpack('>Q' or '>I') gives
RECURSIVE BigEndian(_)
BigEndian(s) ==
    IF s = <<>> THEN 0 ELSE 256 * BigEndian(SubSeq(s, 1, Len(s) - 1)) + s[Len(s)]

\* A yielded value is a Python int or a bytes object.
IntValue(v) == [type |-> "int", int |-> v, bytes |-> <<>>]
BytesValue(s) == [type |-> "bytes", int |-> 0, bytes |-> s]

\* Mutant of Yield: the cursor is not kept across the yield.
YieldCursorLost(n, v, p) ==
    [kind |-> "yield", num |-> n, value |-> v, pos |-> 0, err |-> <<>>]

Yield(n, v, p) == [kind |-> "yield", num |-> n, value |-> v, pos |-> p, err |-> <<>>]
\* Mutant of Raise: the entry is skipped instead of raising.
RaiseAsYield(e, p) ==
    [kind |-> "yield", num |-> 0, value |-> IntValue(0), pos |-> p + 1, err |-> <<>>]

Raise(e, p) == [kind |-> "raise", num |-> 0, value |-> IntValue(0), pos |-> p, err |-> e]

\* One iteration of the while loop of iter_fields, entered with pos = p < len(d).
IterFieldsBody(d, p) ==
    LET tag == read_varint(d, p)
    IN  IF ~tag.ok THEN Raise(TruncatedVarint, p)
        ELSE LET field_num == tag.value \div 8
                 wire_type == tag.value % 8
                 q == tag.pos
             IN  CASE wire_type = 0 ->
                        LET v == read_varint(d, q)
                        IN  IF v.ok THEN Yield(field_num, IntValue(v.value), v.pos)
                            ELSE Raise(TruncatedVarint, q)
                   [] wire_type = 2 ->
                        LET l == read_varint(d, q)
                        IN  IF l.ok
                            THEN Yield(field_num, BytesValue(PySlice(d, l.pos, l.value)),
                                       l.pos + l.value)
                            ELSE Raise(TruncatedVarint, q)
                   [] wire_type = 1 ->
                        LET s == PySlice(d, q, 8)
                        IN  IF Len(s) = 8
                            THEN Yield(field_num, IntValue(LittleEndian(s)), q + 8)
                            ELSE Raise(StructError, q)
                   [] wire_type = 5 ->
                        LET s == PySlice(d, q, 4)
                        IN  IF Len(s) = 4
                            THEN Yield(field_num, IntValue(LittleEndian(s)), q + 4)
                            ELSE Raise(StructError, q)
                   [] OTHER -> Raise(<<"ValueError", "Unknown wire type", wire_type>>, q)

\* The generator run to its end from pos = p: the pairs it yields and the
\* exception that ends it (<<>> when it ends by exhausting the buffer).
RECURSIVE IterFieldsFrom(_, _)
IterFieldsFrom(d, p) ==
    IF p >= Len(d) THEN [fields |-> <<>>, err |-> <<>>]
    ELSE LET s == IterFieldsBody(d, p)
         IN  IF s.kind = "raise" THEN [fields |-> <<>>, err |-> s.err]
             ELSE LET rest == IterFieldsFrom(d, s.pos)
                  IN  [fields |-> <<[num |-> s.num, value |-> s.value]>> \o rest.fields,
                       err |-> rest.err]

iter_fields(d) == IterFieldsFrom(d, 0)

(* Buffers given to the decoder: field encodings put one after the other   *)
(* and cut off at any byte.                                                *)
MaxFields == 2

SampleFields ==
    { <<8, 1>>,                          \* field 1, varint 1
      <<8, 128, 1>>,                     \* field 1, varint 128 (two bytes)
      <<10, 2, 65, 66>>,                 \* field 1, bytes b'AB'
      <<10, 0>>,                         \* field 1, bytes b''
      <<13, 1, 2, 0, 0>>,                \* field 1, 32-bit 513
      <<9, 3, 0, 0, 0, 0, 0, 0, 0>>,     \* field 1, 64-bit 3
      <<11>>,                            \* field 1, wire type 3
      <<12>>,                            \* field 1, wire type 4
      <<22>>,                            \* field 2, wire type 6
      <<15>>,                            \* field 1, wire type 7
      <<128, 1, 5>> }                    \* field 16 (two-byte tag), varint 5

RECURSIVE Concats(_)
Concats(n) ==
    IF n = 0 THEN {<<>>}
    ELSE Concats(n - 1) \cup {c \o f : c \in Concats(n - 1), f \in SampleFields}

Prefixes(s) == {SubSeq(s, 1, n) : n \in 0..Len(s)}

WireBuffers == UNION {Prefixes(c) : c \in Concats(MaxFields)}

WireInit ==
    /\ wdata \in WireBuffers
    /\ wpos = 0
    /\ wstate = "ready"
    /\ wfields = <<>>
    /\ werr = <<>>

WireIdle ==
    /\ wdata = <<>>
    /\ wpos = 0
    /\ wstate = "idle"
    /\ wfields = <<>>
    /\ werr = <<>>

\* next() on the generator: the loop body runs to the yield
WireYield ==
    /\ wstate = "ready"
    /\ wpos < Len(wdata)
    /\ LET s == IterFieldsBody(wdata, wpos)
       IN  /\ s.kind = "yield"
           /\ wfields' = Append(wfields, [num |-> s.num, value |-> s.value])
           /\ wpos' = s.pos
    /\ UNCHANGED <<wdata, wstate, werr>>
    /\ UNCHANGED <<exVars, loadVars, cmdVars, dlVars>>

\* next() on the generator: the loop body raises
WireRaise ==
    /\ wstate = "ready"
    /\ wpos < Len(wdata)
    /\ LET s == IterFieldsBody(wdata, wpos)
       IN  /\ s.kind = "raise"
           /\ werr' = s.err
    /\ wstate' = "raised"
    /\ UNCHANGED <<wdata, wpos, wfields>>
    /\ UNCHANGED <<exVars, loadVars, cmdVars, dlVars>>

\* next() on the generator: the while condition fails, StopIteration
WireStop ==
    /\ wstate = "ready"
    /\ wpos >= Len(wdata)
    /\ wstate' = "stopped"
    /\ UNCHANGED <<wdata, wpos, wfields, werr>>
    /\ UNCHANGED <<exVars, loadVars, cmdVars, dlVars>>

WireNext ==
    \/ WireYield
    \/ WireRaise
    \/ WireStop

-----------------------------------------------------------------------------
(* The manifest parsers: parse_operation, parse_partition.                 *)

\* the value assigned from a yielded pair, whatever its Python type
Scalar(v) == IF v.type = "int" THEN v.int ELSE v.bytes

\* iter_fields(value) on a value that is an int: len() of an int
TypeError == <<"TypeError">>

Nested(v) == IF v.type = "bytes" THEN iter_fields(v.bytes)
             ELSE [fields |-> <<>>, err |-> TypeError]

\* bytes.decode(): UTF-8.  The names of the model are ASCII; a byte in
\* 0x80..0xBF where a character starts is a UnicodeDecodeError.
Decode(s) == [ok |-> \A j \in 1..Len(s) : s[j] < 128, str |-> s]

\* dataclass Operation with its defaults
Operation == [op_type |-> 0, data_offset |-> 0, data_length |-> 0,
              dst_extents |-> <<>>, data_sha256 |-> <<>>]

\* dataclass Partition with its defaults
Partition == [name |-> <<>>, operations |-> <<>>, size |-> 0]

\* the inner loop of parse_operation over the fields of one dst_extent
RECURSIVE ExtentOf(_, _)
ExtentOf(fields, e) ==
    IF fields = <<>> THEN e
    ELSE LET f == Head(fields)
         IN  ExtentOf(Tail(fields),
                      IF f.num = 1 THEN [e EXCEPT !.start = Scalar(f.value)]
                      ELSE IF f.num = 2 THEN [e EXCEPT !.num = Scalar(f.value)]
                      ELSE e)

\* the loop of parse_operation over the pairs a generator yields (fields)
\* and the exception that ends it (err)
RECURSIVE OperationOf(_, _, _)
OperationOf(fields, err, op) ==
    IF fields = <<>> THEN [ok |-> err = <<>>, err |-> err, op |-> op]
    ELSE LET f == Head(fields)
             rest == Tail(fields)
         IN  CASE f.num = 1 -> OperationOf(rest, err, [op EXCEPT !.op_type = Scalar(f.value)])
               [] f.num = 2 -> OperationOf(rest, err, [op EXCEPT !.data_offset = Scalar(f.value)])
               [] f.num = 3 -> OperationOf(rest, err, [op EXCEPT !.data_length = Scalar(f.value)])
               [] f.num = 6 ->
                    LET it == Nested(f.value)
                    IN  IF it.err # <<>> THEN [ok |-> FALSE, err |-> it.err, op |-> op]
                        ELSE OperationOf(rest, err,
                                 [op EXCEPT !.dst_extents =
                                     Append(@, ExtentOf(it.fields, [start |-> 0, num |-> 0]))])
               [] f.num = 8 -> OperationOf(rest, err, [op EXCEPT !.data_sha256 = Scalar(f.value)])
               [] OTHER -> OperationOf(rest, err, op)

parse_operation(d) ==
    LET it == iter_fields(d) IN OperationOf(it.fields, it.err, Operation)

\* the inner loop of parse_partition over the fields of new_partition_info
RECURSIVE SizeOf(_, _)
SizeOf(fields, size) ==
    IF fields = <<>> THEN size
    ELSE SizeOf(Tail(fields),
                IF Head(fields).num = 1 THEN Scalar(Head(fields).value) ELSE size)

RECURSIVE PartitionOf(_, _, _)
PartitionOf(fields, err, part) ==
    IF fields = <<>> THEN [ok |-> err = <<>>, err |-> err, part |-> part]
    ELSE LET f == Head(fields)
             rest == Tail(fields)
             fail(e) == [ok |-> FALSE, err |-> e, part |-> part]
         IN  CASE f.num = 1 ->
                    IF f.value.type # "bytes" THEN fail(<<"AttributeError">>)
                    ELSE IF ~Decode(f.value.bytes).ok THEN fail(<<"UnicodeDecodeError">>)
                    ELSE PartitionOf(rest, err,
                             [part EXCEPT !.name = Decode(f.value.bytes).str])
               [] f.num = 7 ->
                    LET it == Nested(f.value)
                    IN  IF it.err # <<>> THEN fail(it.err)
                        ELSE PartitionOf(rest, err,
                                 [part EXCEPT !.size = SizeOf(it.fields, @)])
               [] f.num = 8 ->
                    LET o == IF f.value.type = "bytes" THEN parse_operation(f.value.bytes)
                             ELSE [ok |-> FALSE, err |-> TypeError, op |-> Operation]
                    IN  IF ~o.ok THEN fail(o.err)
                        ELSE PartitionOf(rest, err,
                                 [part EXCEPT !.operations = Append(@, o.op)])
               [] OTHER -> PartitionOf(rest, err, part)

parse_partition(d) ==
    LET it == iter_fields(d) IN PartitionOf(it.fields, it.err, Partition)

-----------------------------------------------------------------------------
(* load_payload.                                                           *)

\* b'CrAU'
PAYLOAD_MAGIC == <<67, 114, 65, 85>>

BLOCK_SIZE == 4096

\* The files of the model: a 24-byte header, a manifest, a signature and a
\* data region, cut off at any byte.
MaxManifestParts == 2
MaxSig == 1

\* v as width bytes, most significant first (struct.pack('>Q' or '>I'))
RECURSIVE ToBigEndian(_, _)
ToBigEndian(v, width) ==
    IF width = 0 THEN <<>> ELSE ToBigEndian(v \div 256, width - 1) \o <<v % 256>>

\* a length-delimited field whose tag and length take one byte each
LenDelimited(num, body) == <<num * 8 + 2, Len(body)>> \o body

\* InstallOperation: type = ZERO, dst_extents = [(0, 1)]
ZeroOperationMsg == <<8, OP_ZERO>> \o LenDelimited(6, <<8, 0, 16, 1>>)

\* PartitionUpdate: a one-letter name, new_partition_info.size = 4, one operation
PartitionMsg(c) ==
    LenDelimited(1, <<c>>) \o LenDelimited(7, <<8, 4>>) \o LenDelimited(8, ZeroOperationMsg)

RECURSIVE PartitionFields(_)
PartitionFields(n) ==
    IF n = 0 THEN {<<>>}
    ELSE PartitionFields(n - 1)
            \cup {m \o LenDelimited(13, PartitionMsg(c)) :
                     m \in PartitionFields(n - 1), c \in {97, 98}}

\* manifests, with or without field 3 (block_size = 2) in front
Manifests == {b \o m : b \in {<<>>, <<24, 2>>}, m \in PartitionFields(MaxManifestParts)}

Header(magic, version, msize, ssize) ==
    magic \o ToBigEndian(version, 8) \o ToBigEndian(msize, 8) \o ToBigEndian(ssize, 4)

PayloadFiles ==
    UNION {Prefixes(Header(magic, version, Len(m), ssize) \o m \o Zeros(ssize) \o <<1, 2>>) :
              magic \in {PAYLOAD_MAGIC, <<67, 114, 65, 86>>},
              version \in {2, 1},
              m \in Manifests,
              ssize \in 0..MaxSig}

\* Mutant of Payload: the header size left out of data_offset.
PayloadNoHeader(off) ==
    [data_offset |-> off - 24, block_size |-> BLOCK_SIZE, partitions |-> <<>>]

\* Payload(path=path, data_offset=...) with the dataclass defaults
Payload(off) == [data_offset |-> off, block_size |-> BLOCK_SIZE, partitions |-> <<>>]

LoadInit ==
    /\ file \in PayloadFiles
    /\ lpc = "magic"
    /\ manifest_size = 0
    /\ signature_size = 0
    /\ manifest_data = <<>>
    /\ lpos = 0
    /\ loaded = Payload(0)
    /\ lerr = <<>>

LoadIdle ==
    /\ file = <<>>
    /\ lpc = "idle"
    /\ manifest_size = 0
    /\ signature_size = 0
    /\ manifest_data = <<>>
    /\ lpos = 0
    /\ loaded = Payload(0)
    /\ lerr = <<>>

\* magic = f.read(4); if magic != PAYLOAD_MAGIC: raise
ReadMagic ==
    /\ lpc = "magic"
    /\ LET magic == FileRead(file, 0, 4)
       IN  IF magic # PAYLOAD_MAGIC
           THEN /\ lerr' = <<"ValueError", "Invalid magic", magic>>
                /\ lpc' = "raised"
           ELSE /\ lpc' = "version"
                /\ UNCHANGED lerr
    /\ UNCHANGED <<file, manifest_size, signature_size, manifest_data, lpos, loaded>>
    /\ UNCHANGED <<exVars, wireVars, cmdVars, dlVars>>

\* version = struct.unpack('>Q', f.read(8))[0]; if version != 2: raise
ReadVersion ==
    /\ lpc = "version"
    /\ LET s == FileRead(file, 4, 8)
       IN  IF Len(s) # 8
           THEN /\ lerr' = StructError
                /\ lpc' = "raised"
           ELSE IF BigEndian(s) # 2
           THEN /\ lerr' = <<"ValueError", "Unsupported version", BigEndian(s)>>
                /\ lpc' = "raised"
           ELSE /\ lpc' = "sizes"
                /\ UNCHANGED lerr
    /\ UNCHANGED <<file, manifest_size, signature_size, manifest_data, lpos, loaded>>
    /\ UNCHANGED <<exVars, wireVars, cmdVars, dlVars>>

\* manifest_size, signature_size, manifest_data = f.read(manifest_size);
\* payload = Payload(path=path, data_offset=24 + manifest_size + signature_size)
ReadSizes ==
    /\ lpc = "sizes"
    /\ LET m == FileRead(file, 12, 8)
           g == FileRead(file, 20, 4)
       IN  IF Len(m) # 8 \/ Len(g) # 4
           THEN /\ lerr' = StructError
                /\ lpc' = "raised"
                /\ UNCHANGED <<manifest_size, signature_size, manifest_data, loaded>>
           ELSE /\ manifest_size' = BigEndian(m)
                /\ signature_size' = BigEndian(g)
                /\ manifest_data' = FileRead(file, 24, BigEndian(m))
                /\ loaded' = Payload(24 + BigEndian(m) + BigEndian(g))
                /\ lpc' = "fields"
                /\ UNCHANGED lerr
    /\ UNCHANGED <<file, lpos>>
    /\ UNCHANGED <<exVars, wireVars, cmdVars, dlVars>>

\* one iteration of: for field_num, value in iter_fields(manifest_data)
\* (s is the pair the generator yields or the exception it raises, p the
\* result of parse_partition(value); each is computed once)
ManifestField ==
    /\ lpc = "fields"
    /\ lpos < Len(manifest_data)
    /\ \E s \in {IterFieldsBody(manifest_data, lpos)} :
       \E p \in {IF s.value.type = "bytes" THEN parse_partition(s.value.bytes)
                 ELSE [ok |-> FALSE, err |-> TypeError, part |-> Partition]} :
           IF s.kind = "raise"
           THEN /\ lerr' = s.err
                /\ lpc' = "raised"
                /\ UNCHANGED <<lpos, loaded>>
           ELSE IF s.num = 13 /\ ~p.ok
           THEN /\ lerr' = p.err
                /\ lpc' = "raised"
                /\ UNCHANGED <<lpos, loaded>>
           ELSE /\ lpos' = s.pos
                /\ loaded' = IF s.num = 3 THEN [loaded EXCEPT !.block_size = Scalar(s.value)]
                             ELSE IF s.num = 13
                             THEN [loaded EXCEPT !.partitions = Append(@, p.part)]
                             ELSE loaded
                /\ UNCHANGED <<lpc, lerr>>
    /\ UNCHANGED <<file, manifest_size, signature_size, manifest_data>>
    /\ UNCHANGED <<exVars, wireVars, cmdVars, dlVars>>

\* the generator is exhausted: return payload
ReturnPayload ==
    /\ lpc = "fields"
    /\ lpos >= Len(manifest_data)
    /\ lpc' = "returned"
    /\ UNCHANGED <<file, manifest_size, signature_size, manifest_data, lpos, loaded, lerr>>
    /\ UNCHANGED <<exVars, wireVars, cmdVars, dlVars>>

LoadNext ==
    \/ ReadMagic
    \/ ReadVersion
    \/ ReadSizes
    \/ ManifestField
    \/ ReturnPayload

-----------------------------------------------------------------------------
(* extract_partition as one call, and cmd_extract.                         *)

\* the loop over op.dst_extents of a Zero operation
RECURSIVE ZeroExtents(_, _)
ZeroExtents(b, exts) ==
    IF exts = <<>> THEN b ELSE ZeroExtents(ZeroWrite(b, Head(exts)), Tail(exts))

\* the loop over op.dst_extents of a Replace-family operation, from pos = p
RECURSIVE WriteExtents(_, _, _, _)
WriteExtents(b, d, p, exts) ==
    IF exts = <<>> THEN b
    ELSE WriteExtents(ReplaceWrite(b, d, p, Head(exts)), d, p + Head(exts).num * bs,
                      Tail(exts))

\* the operation loop on an image holding b: the value returned ("True",
\* "False") or "raised", and the bytes left in the image
RECURSIVE RunOperations(_, _)
RunOperations(ops, b) ==
    IF ops = <<>> THEN [result |-> "True", bytes |-> b]
    ELSE LET op == Head(ops)
             c == FileRead(PayloadFile, payload.data_offset + op.data_offset,
                           op.data_length)
             r == decompress(c, op.op_type)
         IN  IF op.op_type = OP_ZERO
             THEN RunOperations(Tail(ops), ZeroExtents(b, op.dst_extents))
             ELSE IF IsIncremental(op.op_type)
             THEN [result |-> "raised", bytes |-> b]
             ELSE IF HashMismatch(c, op.data_sha256) \/ ~r.ok
             THEN [result |-> "False", bytes |-> b]
             ELSE RunOperations(Tail(ops), WriteExtents(b, r.out, 0, op.dst_extents))

\* open(output_path, 'wb') and the operation loop
extract_partition(part) == RunOperations(part.operations, <<>>)

(* The payloads and requests of the model.                                 *)
MaxParts == 2
MaxNames == 3

ReplaceOp == [op_type |-> OP_REPLACE, data_offset |-> 0, data_length |-> 2,
              dst_extents |-> <<[start |-> 0, num |-> 1]>>,
              data_sha256 |-> Sha256(<<1, 2>>)]

OtherReplaceOp == [ReplaceOp EXCEPT !.data_offset = 2, !.data_sha256 = Sha256(<<3, 4>>)]

BadDigestOp == [ReplaceOp EXCEPT !.data_sha256 = Sha256(<<1, 3>>)]

CopyOp == [Operation EXCEPT !.op_type = OP_SOURCE_COPY]

OperationLists == {<<ReplaceOp>>, <<OtherReplaceOp, CopyOp>>, <<BadDigestOp>>}

PartitionNames == {"boot", "vendor"}

RequestNames == PartitionNames \cup {"recovery"}

SeqsUpTo(S, n) == UNION {[1..m -> S] : m \in 0..n}

NoFiles == [n \in {} |-> <<>>]

\* by_name = {p.name: p for p in payload.partitions}: a later partition
\* replaces an earlier one of the same name
KeysOf(parts) == {parts[j].name : j \in 1..Len(parts)}

by_name(parts) ==
    [n \in KeysOf(parts) |->
        parts[CHOOSE j \in 1..Len(parts) :
                 /\ parts[j].name = n
                 /\ \A h \in (j + 1)..Len(parts) : parts[h].name # n]]

\* Mutant of InByName: the membership test always succeeds.
InByNameAlways(n) == n \in RequestNames

\* name in by_name
InByName(n) == n \in DOMAIN by_name(partitions)

CmdInit ==
    /\ partitions \in SeqsUpTo([name : PartitionNames, operations : OperationLists], MaxParts)
    /\ names \in SeqsUpTo(RequestNames, MaxNames)
    /\ output_dir \in {[exists |-> FALSE, files |-> NoFiles],
                       [exists |-> TRUE, files |-> ("boot" :> <<9>>)]}
    /\ dir0 = output_dir
    /\ cpc = "check"
    /\ cidx = 0
    /\ cresult = "running"
    /\ cerror = <<>>
    /\ mkdirs = 0
    /\ opened = <<>>

CmdIdle ==
    /\ partitions = <<>>
    /\ names = <<>>
    /\ output_dir = [exists |-> FALSE, files |-> NoFiles]
    /\ dir0 = output_dir
    /\ cpc = "idle"
    /\ cidx = 0
    /\ cresult = "running"
    /\ cerror = <<>>
    /\ mkdirs = 0
    /\ opened = <<>>

\* first loop, name in by_name: next name
NameFound ==
    /\ cpc = "check"
    /\ cidx < Len(names)
    /\ InByName(names[cidx + 1])
    /\ cidx' = cidx + 1
    /\ UNCHANGED <<partitions, names, output_dir, cpc, cresult, cerror, dir0, mkdirs, opened>>
    /\ UNCHANGED <<exVars, wireVars, loadVars, dlVars>>

\* first loop, name not in by_name: print the error with sorted(by_name)
\* (the sorted list of a set of keys, kept as the set); return False
NameNotFound ==
    /\ cpc = "check"
    /\ cidx < Len(names)
    /\ ~InByName(names[cidx + 1])
    /\ cerror' = <<"not found", names[cidx + 1], DOMAIN by_name(partitions)>>
    /\ cresult' = "False"
    /\ cpc' = "done"
    /\ UNCHANGED <<partitions, names, output_dir, cidx, dir0, mkdirs, opened>>
    /\ UNCHANGED <<exVars, wireVars, loadVars, dlVars>>

\* output_dir.mkdir(parents=True, exist_ok=True)
Mkdir ==
    /\ cpc = "check"
    /\ cidx = Len(names)
    /\ output_dir' = [output_dir EXCEPT !.exists = TRUE]
    /\ mkdirs' = mkdirs + 1
    /\ cidx' = 0
    /\ cpc' = "extract"
    /\ UNCHANGED <<partitions, names, cresult, cerror, dir0, opened>>
    /\ UNCHANGED <<exVars, wireVars, loadVars, dlVars>>

\* Mutant of ExtractOne: a failed extraction does not end the loop.
ExtractOneKeepGoing ==
    /\ cpc = "extract"
    /\ cidx < Len(names)
    /\ LET name == names[cidx + 1]
       IN  IF ~(name \in DOMAIN by_name(partitions))
           THEN /\ cresult' = "raised"
                /\ cerror' = <<"KeyError", name>>
                /\ cpc' = "done"
                /\ UNCHANGED <<output_dir, cidx, opened>>
           ELSE LET r == extract_partition(by_name(partitions)[name])
                IN  /\ output_dir' = [output_dir EXCEPT
                                         !.files = (name :> r.bytes) @@ @]
                    /\ opened' = Append(opened, name)
                    /\ cidx' = cidx + 1
                    /\ UNCHANGED <<cpc, cresult, cerror>>
    /\ UNCHANGED <<partitions, names, dir0, mkdirs>>
    /\ UNCHANGED <<exVars, wireVars, loadVars, dlVars>>

\* second loop: part = by_name[name]; extract_partition(payload, part, out)
ExtractOne ==
    /\ cpc = "extract"
    /\ cidx < Len(names)
    /\ LET name == names[cidx + 1]
       IN  IF ~(name \in DOMAIN by_name(partitions))
           THEN /\ cresult' = "raised"
                /\ cerror' = <<"KeyError", name>>
                /\ cpc' = "done"
                /\ UNCHANGED <<output_dir, cidx, opened>>
           ELSE LET r == extract_partition(by_name(partitions)[name])
                IN  /\ output_dir' = [output_dir EXCEPT
                                         !.files = (name :> r.bytes) @@ @]
                    /\ opened' = Append(opened, name)
                    /\ IF r.result = "True"
                       THEN /\ cidx' = cidx + 1
                            /\ UNCHANGED <<cpc, cresult, cerror>>
                       ELSE /\ cresult' = r.result
                            /\ cerror' = <<"extract_partition", name, r.result>>
                            /\ cpc' = "done"
                            /\ UNCHANGED cidx
    /\ UNCHANGED <<partitions, names, dir0, mkdirs>>
    /\ UNCHANGED <<exVars, wireVars, loadVars, dlVars>>

\* print("\nAll done."); return True
AllDone ==
    /\ cpc = "extract"
    /\ cidx = Len(names)
    /\ cresult' = "True"
    /\ cpc' = "done"
    /\ UNCHANGED <<partitions, names, output_dir, cidx, cerror, dir0, mkdirs, opened>>
    /\ UNCHANGED <<exVars, wireVars, loadVars, dlVars>>

CmdNext ==
    \/ NameFound
    \/ NameNotFound
    \/ Mkdir
    \/ ExtractOne
    \/ AllDone

-----------------------------------------------------------------------------
(* download_file_multiconnection and its worker threads                    *)
(* (src/download_firmware.py).  Statements under "with lock" are atomic    *)
(* steps; a worker's f.write and the update of its progress entry are one  *)
(* step.  The server and the network are the environment: a request is     *)
(* answered 206 or not, a read returns some bytes, none, or raises.  An    *)
(* exception download_chunk does not catch (http.client.HTTPException from *)
(* urlopen or response.read) ends the thread with no result recorded.      *)

MaxSize == 4
MaxConn == 3

CHUNK_SIZE == 5 * 1024 * 1024

\* chunk_size = total_size // num_connections
ChunkSize(T, n) == T \div n

\* Mutant of RangeOf: the end of a chunk is the start of the next one.
RangeOfOverlapping(j, T, n) ==
    [start |-> j * ChunkSize(T, n),
     end   |-> IF j = n - 1 THEN T - 1 ELSE (j + 1) * ChunkSize(T, n)]

\* the (start, end) appended for connection j
RangeOf(j, T, n) ==
    [start |-> j * ChunkSize(T, n),
     end   |-> IF j = n - 1 THEN T - 1 ELSE (j + 1) * ChunkSize(T, n) - 1]

Workers == 0..(num_connections - 1)

\* total_chunk_size = end - start + 1
TotalChunkSize(j) == ranges[j].end - ranges[j].start + 1

\* sum(progress_tracker.values())
RECURSIVE SumOver(_, _)
SumOver(f, S) ==
    IF S = {} THEN 0
    ELSE LET x == CHOOSE y \in S : TRUE IN f[x] + SumOver(f, S \ {x})

SumValues(f) == SumOver(f, DOMAIN f)

\* all(results.values()) if results else False
AllSuccess(r) == IF DOMAIN r # {} THEN \A j \in DOMAIN r : r[j] ELSE FALSE

\* t.is_alive()
IsAlive(j) == tpc[j] \in {"request", "read", "record_true", "record_false"}

NoEntries == [j \in {} |-> 0]

DlInit ==
    /\ total_size \in 1..MaxSize
    /\ num_connections \in 1..MaxConn
    /\ mpc = "alloc"
    /\ ranges = NoEntries
    /\ progress_tracker = NoEntries
    /\ results = NoEntries
    /\ tpc = [j \in 0..(num_connections - 1) |-> "new"]
    /\ downloaded = [j \in 0..(num_connections - 1) |-> 0]
    /\ started = 0
    /\ total_downloaded = 0
    /\ dresult = "running"
    /\ written = {}

DlIdle ==
    /\ total_size = 1
    /\ num_connections = 1
    /\ mpc = "idle"
    /\ ranges = NoEntries
    /\ progress_tracker = NoEntries
    /\ results = NoEntries
    /\ tpc = NoEntries
    /\ downloaded = NoEntries
    /\ started = 0
    /\ total_downloaded = 0
    /\ dresult = "running"
    /\ written = {}

\* with open(output_path, 'wb') as f: f.seek(total_size - 1); f.write(b'\0')
Preallocate ==
    /\ mpc = "alloc"
    /\ mpc' = "ranges"
    /\ UNCHANGED <<total_size, num_connections, ranges, progress_tracker, results, tpc,
                   downloaded, started, total_downloaded, dresult, written>>
    /\ UNCHANGED <<exVars, wireVars, loadVars, cmdVars>>

\* except IOError: return False
PreallocateFails ==
    /\ mpc = "alloc"
    /\ dresult' = "False"
    /\ mpc' = "returned"
    /\ UNCHANGED <<total_size, num_connections, ranges, progress_tracker, results, tpc,
                   downloaded, started, total_downloaded, written>>
    /\ UNCHANGED <<exVars, wireVars, loadVars, cmdVars>>

\* the loop building ranges; progress_tracker, lock, results
ComputeRanges ==
    /\ mpc = "ranges"
    /\ ranges' = [j \in Workers |-> RangeOf(j, total_size, num_connections)]
    /\ progress_tracker' = [j \in Workers |-> 0]
    /\ results' = NoEntries
    /\ mpc' = "start"
    /\ UNCHANGED <<total_size, num_connections, tpc, downloaded, started,
                   total_downloaded, dresult, written>>
    /\ UNCHANGED <<exVars, wireVars, loadVars, cmdVars>>

\* one iteration of the loop starting the threads
StartThread ==
    /\ mpc = "start"
    /\ started < num_connections
    /\ tpc' = [tpc EXCEPT ![started] = "request"]
    /\ started' = started + 1
    /\ mpc' = IF started + 1 = num_connections THEN "poll" ELSE "start"
    /\ UNCHANGED <<total_size, num_connections, ranges, progress_tracker, results,
                   downloaded, total_downloaded, dresult, written>>
    /\ UNCHANGED <<exVars, wireVars, loadVars, cmdVars>>

\* one iteration of: while any(t.is_alive() for t in threads)
Poll ==
    /\ mpc = "poll"
    /\ \E j \in Workers : IsAlive(j)
    /\ total_downloaded' = SumValues(progress_tracker)
    /\ UNCHANGED <<total_size, num_connections, ranges, progress_tracker, results, tpc,
                   downloaded, started, mpc, dresult, written>>
    /\ UNCHANGED <<exVars, wireVars, loadVars, cmdVars>>

\* no thread is alive: the joins return; the final progress update
JoinThreads ==
    /\ mpc = "poll"
    /\ \A j \in Workers : ~IsAlive(j)
    /\ total_downloaded' = SumValues(progress_tracker)
    /\ mpc' = "final"
    /\ UNCHANGED <<total_size, num_connections, ranges, progress_tracker, results, tpc,
                   downloaded, started, dresult, written>>
    /\ UNCHANGED <<exVars, wireVars, loadVars, cmdVars>>

\* all_success = ...; return all_success and total_downloaded == total_size
FinalCheck ==
    /\ mpc = "final"
    /\ dresult' = IF AllSuccess(results) /\ total_downloaded = total_size
                  THEN "True" ELSE "False"
    /\ mpc' = "returned"
    /\ UNCHANGED <<total_size, num_connections, ranges, progress_tracker, results, tpc,
                   downloaded, started, total_downloaded, written>>
    /\ UNCHANGED <<exVars, wireVars, loadVars, cmdVars>>

\* download_chunk: the request is answered 206 and the file is opened
Request206(j) ==
    /\ tpc[j] = "request"
    /\ tpc' = [tpc EXCEPT ![j] = "read"]
    /\ downloaded' = [downloaded EXCEPT ![j] = 0]
    /\ UNCHANGED <<total_size, num_connections, ranges, progress_tracker, results,
                   started, mpc, total_downloaded, dresult, written>>
    /\ UNCHANGED <<exVars, wireVars, loadVars, cmdVars>>

\* download_chunk: another status, or a caught URLError, HTTPError or
\* IOError (opening the file included): return False
RequestFails(j) ==
    /\ tpc[j] = "request"
    /\ tpc' = [tpc EXCEPT ![j] = "record_false"]
    /\ UNCHANGED <<total_size, num_connections, ranges, progress_tracker, results,
                   downloaded, started, mpc, total_downloaded, dresult, written>>
    /\ UNCHANGED <<exVars, wireVars, loadVars, cmdVars>>

\* urlopen or response.read raises an exception line 286 does not catch:
\* the thread ends in worker with results untouched
Uncaught(j) ==
    /\ \/ tpc[j] = "request"
       \/ tpc[j] = "read" /\ downloaded[j] < TotalChunkSize(j)
    /\ tpc' = [tpc EXCEPT ![j] = "died"]
    /\ UNCHANGED <<total_size, num_connections, ranges, progress_tracker, results,
                   downloaded, started, mpc, total_downloaded, dresult, written>>
    /\ UNCHANGED <<exVars, wireVars, loadVars, cmdVars>>

\* one iteration of the read loop in which response.read returns r bytes
ReadWrite(j, r) ==
    /\ tpc[j] = "read"
    /\ downloaded[j] < TotalChunkSize(j)
    /\ r >= 1
    /\ r <= Min(CHUNK_SIZE, TotalChunkSize(j) - downloaded[j])
    /\ written' = written \cup
                    {<<ranges[j].start + downloaded[j] + h, j>> : h \in 0..(r - 1)}
    /\ downloaded' = [downloaded EXCEPT ![j] = @ + r]
    /\ progress_tracker' = [progress_tracker EXCEPT ![j] = downloaded[j] + r]
    /\ UNCHANGED <<total_size, num_connections, ranges, results, tpc,
                   started, mpc, total_downloaded, dresult>>
    /\ UNCHANGED <<exVars, wireVars, loadVars, cmdVars>>

\* the read loop is left, by its condition (the chunk is complete), by an
\* empty read (break) or by a caught IOError:
\* return downloaded == total_chunk_size
ChunkReturns(j) ==
    /\ tpc[j] = "read"
    /\ tpc' = [tpc EXCEPT ![j] = IF downloaded[j] = TotalChunkSize(j)
                                 THEN "record_true" ELSE "record_false"]
    /\ UNCHANGED <<total_size, num_connections, ranges, progress_tracker, results,
                   downloaded, started, mpc, total_downloaded, dresult, written>>
    /\ UNCHANGED <<exVars, wireVars, loadVars, cmdVars>>

\* worker: with lock: results[chunk_id] = success
Record(j) ==
    /\ tpc[j] \in {"record_true", "record_false"}
    /\ results' = (j :> (tpc[j] = "record_true")) @@ results
    /\ tpc' = [tpc EXCEPT ![j] = "finished"]
    /\ UNCHANGED <<total_size, num_connections, ranges, progress_tracker,
                   downloaded, started, mpc, total_downloaded, dresult, written>>
    /\ UNCHANGED <<exVars, wireVars, loadVars, cmdVars>>

DlNext ==
    \/ Preallocate
    \/ PreallocateFails
    \/ ComputeRanges
    \/ StartThread
    \/ Poll
    \/ JoinThreads
    \/ FinalCheck
    \/ \E j \in Workers : Request206(j)
    \/ \E j \in Workers : RequestFails(j)
    \/ \E j \in Workers : Uncaught(j)
    \/ \E j \in Workers : \E r \in 1..MaxSize : ReadWrite(j, r)
    \/ \E j \in Workers : ChunkReturns(j)
    \/ \E j \in Workers : Record(j)

-----------------------------------------------------------------------------
(* The specifications.                                                     *)

ExIdle ==
    /\ pc = "idle"
    /\ img = [exists |-> FALSE, bytes |-> <<>>]
    /\ i = -1
    /\ op_type = OP_REPLACE
    /\ mism = FALSE
    /\ k = 0
    /\ compressed = <<>>
    /\ data = <<>>
    /\ pos = 0
    /\ result = "running"
    /\ error = <<>>
    /\ nreads = 0
    /\ nwrites = 0
    /\ dec = FALSE
    /\ wbytes = 0
    /\ extBytes = 0
    /\ opw = {}
    /\ stale = {}

\* extract_partition
Init == ExInit /\ WireIdle /\ LoadIdle /\ CmdIdle /\ DlIdle

InitWire == WireInit /\ ExIdle /\ LoadIdle /\ CmdIdle /\ DlIdle

InitLoad == LoadInit /\ ExIdle /\ WireIdle /\ CmdIdle /\ DlIdle

InitCmd == CmdInit /\ ExIdle /\ WireIdle /\ LoadIdle /\ DlIdle

Next == ExNext

Spec == Init /\ [][Next]_vars

\* iter_fields
SpecWire == InitWire /\ [][WireNext]_vars

\* load_payload
SpecLoad == InitLoad /\ [][LoadNext]_vars

\* cmd_extract
SpecCmd == InitCmd /\ [][CmdNext]_vars

InitDL == DlInit /\ ExIdle /\ WireIdle /\ LoadIdle /\ CmdIdle

\* download_file_multiconnection
SpecDL == InitDL /\ [][DlNext]_vars

-----------------------------------------------------------------------------
(* Claims about extract_partition (Spec).                                  *)

\* One step of the extent loop of a Replace-family operation.
WriteStep == pc = "write" /\ k' = k + 1

\* C1: a Replace-family operation writes, for each extent in order, the slice
\* of the decompressed buffer that starts at the sum of the earlier extents'
\* byte lengths and is num*block_size bytes long, at byte offset
\* start*block_size, and changes no other byte that was there.
C1_ExtentSlices ==
    [][WriteStep =>
        \E e \in Extents :
            /\ pos' = pos + e.num * bs
            /\ pos' <= Len(data)
            /\ Len(img'.bytes) >= (e.start + e.num) * bs
            /\ \A o \in 0..(Len(img'.bytes) - 1) :
                 IF e.start * bs <= o /\ o < (e.start + e.num) * bs
                 THEN img'.bytes[o + 1] = data[pos + (o - e.start * bs) + 1]
                 ELSE o < Len(img.bytes) => img'.bytes[o + 1] = img.bytes[o + 1]]_vars

\* The slices C1 describes are written whenever the buffer reaches that far
\* (a lemma: where the code agrees with C1).
ExtentSlicesWhenBufferSuffices ==
    [][WriteStep =>
        \E e \in Extents :
            /\ pos' = pos + e.num * bs
            /\ pos' <= Len(data) =>
                /\ Len(img'.bytes) >= (e.start + e.num) * bs
                /\ \A o \in 0..(Len(img'.bytes) - 1) :
                     IF e.start * bs <= o /\ o < (e.start + e.num) * bs
                     THEN img'.bytes[o + 1] = data[pos + (o - e.start * bs) + 1]
                     ELSE o < Len(img.bytes) => img'.bytes[o + 1] = img.bytes[o + 1]]_vars

\* C2: a non-empty declared digest that differs from the digest of the bytes
\* read makes the operation fail with the hash-mismatch error, before
\* decompress is called and before the operation writes anything.
C2_MismatchFails ==
    mism => /\ pc = "done"
            /\ result = "False"
            /\ error = <<"Hash mismatch at operation", i>>
            /\ ~dec
            /\ k = 0
            /\ wbytes = 0

C2_Witness ==
    /\ mism
    /\ pc = "done"
    /\ op_type \in ReplaceKinds
    /\ compressed # <<>>
    /\ i = 1
    /\ img.bytes # <<>>

\* C3: reaching a SourceCopy, SourceBsdiff or Puffdiff operation raises the
\* unsupported-operation error naming the kind, with no source read and no
\* destination write for it; the bytes written before stay and nothing
\* runs after it.
C3_IncrementalRefused ==
    [][/\ (pc = "dispatch" /\ op_type \in IncrementalKinds) =>
            /\ pc' = "done"
            /\ result' = "raised"
            /\ error' = <<"ValueError", "Incremental op not supported",
                          OP_NAMES[op_type]>>
            /\ nreads' = 0
            /\ wbytes' = 0
            /\ img' = img
            /\ i' = i
       /\ pc = "done" => FALSE]_vars

C3_Witness ==
    /\ result = "raised"
    /\ op_type = OP_PUFFDIFF
    /\ i = 1
    /\ img.bytes # <<>>

\* C4: a partition whose first operation is SourceCopy, SourceBsdiff or
\* Puffdiff leaves no zero-length image file behind.
C4_NoEmptyImage ==
    (result = "raised" /\ i = 0) => ~(img.exists /\ img.bytes = <<>>)

\* C6: after a successful extraction every destination byte covered by an
\* extent holds a value written by the highest-index operation whose
\* extents cover it.
C6_LastCoverWins ==
    (pc = "done" /\ result = "True") => stale = {}

\* C7: a Zero operation writes num*block_size zero bytes at start*block_size
\* for each extent, reads nothing from the payload, consults no digest and
\* goes on to the next operation.
C7_ZeroWrites ==
    op_type = OP_ZERO =>
        /\ pc \in {"dispatch", "opdone"}
        /\ result = "running"
        /\ nreads = 0
        /\ ~dec
        /\ ~mism
        /\ wbytes = extBytes
        /\ stale = stale \ opw
        /\ \A o \in opw : o < Len(img.bytes) /\ img.bytes[o + 1] = 0

C7_Witness ==
    /\ op_type = OP_ZERO
    /\ pc = "opdone"
    /\ i = 1
    /\ k = 1
    /\ opw # {}
    /\ \E o \in Offsets \ opw : o < Len(img.bytes) /\ img.bytes[o + 1] # 0

\* C8: a Replace-family operation (with at least one extent) that completes
\* has a decompressed buffer exactly as long as its extents.
C8_BufferMatchesExtents ==
    (pc = "opdone" /\ op_type \in ReplaceKinds /\ k >= 1) => Len(data) = extBytes

\* C15: an operation of a kind that is neither Replace-family, Zero nor
\* incremental ends the extraction with the unsupported-operation error
\* naming the kind, whatever its source bytes and digest, and writes nothing.
C15_OtherKindUnsupported ==
    op_type \in OtherKinds =>
        /\ wbytes = 0
        /\ k = 0
        /\ pc \in {"dispatch", "done"}
        /\ pc = "done" =>
              /\ result = "False"
              /\ error = <<"Unsupported", OpNameOr(op_type)>>

\* Where the code agrees with C15: nothing is written for such an operation,
\* it always fails, and with an absent or matching digest the error is the
\* unsupported-operation error naming the kind.
OtherKindFails ==
    op_type \in OtherKinds =>
        /\ wbytes = 0
        /\ k = 0
        /\ pc \in {"dispatch", "done"}
        /\ pc = "done" =>
              /\ result = "False"
              /\ ~mism => error = <<"Unsupported", OpNameOr(op_type)>>

-----------------------------------------------------------------------------
(* Claims about cmd_extract (SpecCmd).                                     *)

\* The partition names of the payload, read off payload.partitions.
AvailableNames == {partitions[h].name : h \in 1..Len(partitions)}

\* Some requested name is the name of no partition.
SomeNameUnknown == \E j \in 1..Len(names) : names[j] \notin AvailableNames

\* C5: when a requested name is absent from the payload, at any position of
\* the list, cmd_extract creates no directory, opens no image file and runs
\* no operation, and it ends returning False with the first absent name and
\* the available names reported.
C5_UnknownNameNoEffect ==
    SomeNameUnknown =>
        /\ cpc \in {"check", "done"}
        /\ output_dir = dir0
        /\ mkdirs = 0
        /\ opened = <<>>
        /\ cpc = "done" =>
              /\ cresult = "False"
              /\ cerror = <<"not found", names[cidx + 1], AvailableNames>>
              /\ names[cidx + 1] \notin AvailableNames
              /\ \A j \in 1..cidx : names[j] \in AvailableNames

\* C5 witness: the unknown name comes after a valid one, the payload has
\* partitions, and the call has returned.
C5_Witness ==
    /\ cpc = "done"
    /\ cresult = "False"
    /\ Len(names) = 2
    /\ names[1] \in AvailableNames
    /\ names[2] = "recovery"
    /\ cidx = 1
    /\ ~dir0.exists

\* Names that two or more partitions of the payload carry.
DuplicatedNames ==
    {n \in AvailableNames :
        \E g, h \in 1..Len(partitions) :
            g # h /\ partitions[g].name = n /\ partitions[h].name = n}

\* C11: an extraction that asks for a name carried by two partitions does
\* not succeed.
C11_DuplicateNameFails ==
    (cpc = "done" /\ \E j \in 1..Len(names) : names[j] \in DuplicatedNames)
        => cresult # "True"

\* What extracting the partition selected for name n gives.
Outcome(n) == extract_partition(by_name(partitions)[n])

\* The positions in names of the partitions whose extraction fails.
FailIdx == {j \in 1..Len(names) : Outcome(names[j]).result # "True"}

FirstFail == CHOOSE j \in FailIdx : \A h \in FailIdx : j <= h

\* C14: with all names known, the images are opened in the order of names;
\* when some partition's extraction fails, no image after the first failing
\* one is ever opened, the call ends with that partition's failure (False or
\* the raised error), and the images extracted before it are in place.
C14_FailFast ==
    ~SomeNameUnknown =>
        /\ opened = SubSeq(names, 1, Len(opened))
        /\ FailIdx # {} =>
              /\ Len(opened) <= FirstFail
              /\ cresult # "True"
              /\ cpc = "done" =>
                    /\ cresult = Outcome(names[FirstFail]).result
                    /\ Len(opened) = FirstFail
                    /\ \A j \in 1..(FirstFail - 1) :
                          /\ names[j] \in DOMAIN output_dir.files
                          /\ output_dir.files[names[j]] = Outcome(names[j]).bytes
        /\ (FailIdx = {} /\ cpc = "done") => (cresult = "True" /\ opened = names)

\* C14 witness: three partitions were requested, the second failed by a
\* raised error after writing, the first one's image is there and the third
\* was not opened.
C14_Witness ==
    /\ cpc = "done"
    /\ cresult = "raised"
    /\ Len(names) = 3
    /\ names[1] # names[2]
    /\ opened = <<names[1], names[2]>>
    /\ output_dir.files[names[1]] # <<>>
    /\ output_dir.files[names[2]] # <<>>
    /\ Outcome(names[3]).result = "True"

-----------------------------------------------------------------------------
(* Claims about iter_fields (SpecWire).                                    *)

\* C9: a field whose encoding runs past the end of the buffer is never
\* yielded: after every yield the cursor, which stands at the end of the
\* encoding the field declares, is within the buffer.
C9_TruncationFails == wfields # <<>> => wpos <= Len(wdata)

\* Where the code agrees with C9: a buffer that ends inside a varint (tag,
\* value or length) or inside a fixed-width value makes the decoder raise.
\* The decoder ends normally only with an int as the last value or with the
\* cursor having gone through a length-delimited field.
ScalarTruncationRaises ==
    (wstate = "stopped" /\ wfields # <<>> /\ wfields[Len(wfields)].value.type = "int")
        => wpos = Len(wdata)

\* The wire type of the entry at the cursor: the low three bits of the tag
\* are the low three bits of its first byte.
WireTypeAtCursor == wdata[wpos + 1] % 8

\* The tag at the cursor ends within the buffer.
TagEnds == \E j \in (wpos + 1)..Len(wdata) : wdata[j] < 128

\* C13: every step of the decoder at an entry of wire type 0, 1, 2 or 5
\* yields exactly one pair, after the pairs yielded before and with the
\* cursor moved forward, or raises for truncation; at an entry of wire type
\* 3, 4, 6 or 7 it raises the unknown-wire-type error and yields nothing;
\* after an error no step follows.
C13_WireTypes ==
    [][IF wstate = "ready" /\ wpos < Len(wdata)
       THEN IF WireTypeAtCursor \in {0, 1, 2, 5}
            THEN \/ /\ wstate' = "ready"
                    /\ Len(wfields') = Len(wfields) + 1
                    /\ SubSeq(wfields', 1, Len(wfields)) = wfields
                    /\ wfields'[Len(wfields')].value.type
                          = IF WireTypeAtCursor = 2 THEN "bytes" ELSE "int"
                    /\ wdata[wpos + 1] < 128
                          => wfields'[Len(wfields')].num = wdata[wpos + 1] \div 8
                    /\ wpos' > wpos
                 \/ /\ wstate' = "raised"
                    /\ werr' \in {TruncatedVarint, StructError}
                    /\ wfields' = wfields
            ELSE /\ wstate' = "raised"
                 /\ wfields' = wfields
                 /\ werr' = IF TagEnds
                            THEN <<"ValueError", "Unknown wire type", WireTypeAtCursor>>
                            ELSE TruncatedVarint
       ELSE wstate = "ready" /\ wstate' = "stopped" /\ wfields' = wfields]_vars

\* C13 witness: the decoder has failed on an entry of wire type 6 after
\* yielding one pair.
C13_Witness ==
    /\ wstate = "raised"
    /\ werr = <<"ValueError", "Unknown wire type", 6>>
    /\ Len(wfields) = 1
    /\ wpos < Len(wdata)

\* C16: the decoder always makes progress.  A suspended generator can
\* always be resumed to a yield, an error or its end; a yield moves the
\* cursor forward by at least one byte and adds one pair; an error or the
\* end adds none and is final; so at most len(data) pairs are yielded.
C16_Progress ==
    /\ [](/\ Len(wfields) <= Len(wdata)
          /\ wstate = "ready" => ENABLED WireNext)
    /\ [][/\ wstate = "ready"
          /\ wstate' = "ready" =>
                /\ wpos' >= wpos + 1
                /\ Len(wfields') = Len(wfields) + 1
          /\ wstate' # "ready" =>
                /\ wstate' \in {"stopped", "raised"}
                /\ wfields' = wfields
          /\ wstate' = "stopped" => wpos >= Len(wdata)]_vars

\* C16 witness: two zero-length length-delimited fields were yielded and the
\* generator has ended.
C16_Witness ==
    /\ wstate = "stopped"
    /\ wdata = <<10, 0, 10, 0>>
    /\ Len(wfields) = 2
    /\ wfields[1].value = BytesValue(<<>>)
    /\ wfields[2].value = BytesValue(<<>>)

-----------------------------------------------------------------------------
(* Claims about load_payload (SpecLoad).                                   *)

\* C10: load_payload returns a Payload only when the file holds the 24
\* header bytes and the whole manifest the header declares.
C10_TruncatedFileFails == lpc = "returned" => Len(file) >= 24 + manifest_size

\* Where the code agrees with C10: a file shorter than the header never
\* yields a Payload.
ShortHeaderFails == Len(file) < 24 => lpc # "returned"

\* The header fields as the bytes of the file give them.
MagicOk == Len(file) >= 4 /\ SubSeq(file, 1, 4) = <<67, 114, 65, 85>>

VersionOk == Len(file) >= 12 /\ SubSeq(file, 5, 12) = <<0, 0, 0, 0, 0, 0, 0, 2>>

\* The values of manifest field 3, in buffer order.
BlockSizeFields ==
    SelectSeq(iter_fields(manifest_data).fields, LAMBDA f : f.num = 3)

\* C12: a Payload is returned only for magic CrAU and version 2, with
\* data_offset = 24 + manifest_length + signature_length and block_size 4096
\* unless manifest field 3 sets it; any other magic or version raises with
\* nothing of the manifest read or parsed.
C12_HeaderContract ==
    /\ lpc = "returned" =>
          /\ MagicOk
          /\ VersionOk
          /\ Len(file) >= 24
          /\ \E m \in 0..255, g \in 0..255 :
                /\ SubSeq(file, 13, 20) = ToBigEndian(m, 8)
                /\ SubSeq(file, 21, 24) = ToBigEndian(g, 4)
                /\ loaded.data_offset = 24 + m + g
          /\ loaded.block_size =
                IF BlockSizeFields = <<>> THEN 4096
                ELSE BlockSizeFields[Len(BlockSizeFields)].value.int
    /\ ~(MagicOk /\ VersionOk) =>
          /\ lpc \in {"magic", "version", "raised"}
          /\ manifest_data = <<>>
          /\ lpos = 0
          /\ loaded.partitions = <<>>
          /\ lpc = "raised" =>
                lerr \in {<<"ValueError", "Invalid magic", FileRead(file, 0, 4)>>,
                          <<"ValueError", "Unsupported version", 1>>,
                          StructError}

\* C12 witness: a whole file with block_size set by field 3, two partitions
\* and a signature has been loaded.
C12_Witness ==
    /\ lpc = "returned"
    /\ loaded.block_size = 2
    /\ Len(loaded.partitions) = 2
    /\ signature_size = 1
    /\ loaded.data_offset = Len(file) - 2

-----------------------------------------------------------------------------
(* Claims about download_file_multiconnection (SpecDL).                    *)

\* The offsets of chunk j's range.
RangeSet(j) == {o \in 0..(total_size - 1) : ranges[j].start <= o /\ o <= ranges[j].end}

\* C17: once computed, the ranges are pairwise disjoint, each starts where
\* the one before ends, and together they cover exactly 0..total_size-1;
\* every byte a worker has written lies in its own range, and no offset has
\* been written by two workers.
C17_DisjointRanges ==
    /\ (mpc = "start" \/ started > 0) =>
          /\ DOMAIN ranges = Workers
          /\ ranges[0].start = 0
          /\ ranges[num_connections - 1].end = total_size - 1
          /\ \A j \in Workers :
                /\ ranges[j].start >= 0
                /\ ranges[j].end >= ranges[j].start - 1
                /\ j > 0 => ranges[j].start = ranges[j - 1].end + 1
          /\ \A g, h \in Workers : g # h => RangeSet(g) \cap RangeSet(h) = {}
          /\ UNION {RangeSet(j) : j \in Workers} = 0..(total_size - 1)
    /\ \A w \in written :
          /\ ranges[w[2]].start <= w[1]
          /\ w[1] <= ranges[w[2]].end
    /\ \A v, w \in written : v[1] = w[1] => v[2] = w[2]

\* C17 witness: three workers, a size they do not divide, every byte
\* written, and the call has returned True.
C17_Witness ==
    /\ mpc = "returned"
    /\ dresult = "True"
    /\ num_connections = 3
    /\ total_size = 4
    /\ {w[1] : w \in written} = 0..3
    /\ {w[2] : w \in written} = {0, 1, 2}

\* The main thread is at or past the final check.
AtFinalCheck == mpc = "final" \/ (mpc = "returned" /\ started = num_connections)

\* C18: the call returns True only if every worker recorded success and
\* the progress entries add up to total_size; at the final check every
\* worker has ended having recorded its one result.
C18_TrueOnlyIfAllSucceeded ==
    /\ AtFinalCheck =>
          /\ \A j \in Workers : ~IsAlive(j)
          /\ DOMAIN results = Workers
    /\ (mpc = "returned" /\ dresult = "True") =>
          /\ \A j \in Workers : j \in DOMAIN results /\ results[j]
          /\ SumValues(progress_tracker) = total_size

\* Where the code agrees with C18: at the final check no worker is running,
\* no worker recorded twice, and True is returned only with every chunk
\* downloaded in full and no recorded failure.
TrueOnlyIfComplete ==
    /\ AtFinalCheck => \A j \in Workers : ~IsAlive(j)
    /\ (mpc = "returned" /\ dresult = "True") =>
          /\ \A j \in Workers : progress_tracker[j] = ranges[j].end - ranges[j].start + 1
          /\ \A j \in DOMAIN results : results[j]
          /\ \A j \in Workers : tpc[j] = "died" => ranges[j].end < ranges[j].start

====
